---------------------------- MODULE Spec2Model ----------------------------
(* Event ingestion and rule routing pipeline of the message-sender         *)
(* microservice: the ingest handler, the background routing task, the      *)
(* routing service (rule selection, condition evaluation, rule execution)  *)
(* and the event and rule stores behind the repository interfaces.         *)
EXTENDS Integers, Sequences, FiniteSets, TLC

VARIABLES
    events,      \* data_events table: event_id -> row
    rules,       \* routing_rules table: sequence of rows, rule_id = position
    response,    \* the last HTTP response of POST /ingest
    passes,      \* background routing tasks / apply_rules calls, by task id
    listing,     \* last answer of the rule listing (get_rules_for_app)
    invocation,  \* a direct call of a service method: arguments and outcome
    rule_id_seq, \* last value of the serial behind routing_rules.rule_id
    connections, \* open database connections, as counted by the server
    global_context, \* settings of the GlobalContext singleton, by key
    requests     \* HTTP requests passing through correlation_id_middleware

vars == <<events, rules, response, passes, listing, invocation,
          rule_id_seq, connections, global_context, requests>>

\* the state outside the ingestion and routing pipeline
admin == <<rule_id_seq, connections, global_context, requests>>

---------------------------------------------------------------------------
(* Bounds of the model.                                                    *)

MaxPasses == 2      \* routing tasks (scheduled by ingest or called again)
MaxSelRules == 4    \* rows of routing_rules in the selector specification
MaxEvents == 2      \* rows of data_events in the ingestion specification
MaxRuleIds == 2     \* rule ids issued in the rule management specification
MaxRequests == 3    \* HTTP requests in the middleware specification

PassIds == 1..MaxPasses

---------------------------------------------------------------------------
(* Strings are sequences of one-character strings, so that str.strip and   *)
(* str.split act on their characters.                                      *)

S_order_created == <<"o","r","d","e","r","_","c","r","e","a","t","e","d">>
S_user_login == <<"u","s","e","r","_","l","o","g","i","n">>
S_order_padded == <<" ">> \o S_order_created \o <<" ">>
S_blank == <<" ", " ">>
S_empty == <<>>
S_total == <<"t","o","t","a","l">>
S_payload_total == <<"p","a","y","l","o","a","d",".","t","o","t","a","l">>
S_webhook == <<"w","e","b","h","o","o","k">>
S_database_table == <<"d","a","t","a","b","a","s","e","_","t","a","b","l","e">>
S_queue == <<"q","u","e","u","e">>
S_email == <<"e","m","a","i","l">>
S_gt == <<"$","g","t">>
S_lt == <<"$","l","t">>
S_gte == <<"$","g","t","e">>
S_lte == <<"$","l","t","e">>
S_eq == <<"$","e","q">>
S_ne == <<"$","n","e">>
S_exists == <<"$","e","x","i","s","t","s">>
S_typo == <<"$","t","y","p","o">>
S_x == <<"x">>
S_user == <<"u","s","e","r">>
S_id == <<"i","d">>
S_user_id == S_user \o <<".">> \o S_id
S_payload == <<"p","a","y","l","o","a","d">>
S_ingested_at == <<"i","n","g","e","s","t","e","d","_","a","t">>
S_now == <<"n","o","w">>
S_corr_a == <<"a">>
S_corr_b == <<"b">>

IsSpace(c) == c = " "

RECURSIVE LStrip(_)
LStrip(s) ==
    IF s # <<>> /\ IsSpace(Head(s)) THEN LStrip(Tail(s)) ELSE s

RECURSIVE RStrip(_)
RStrip(s) ==
    IF s # <<>> /\ IsSpace(s[Len(s)])
    THEN RStrip(SubSeq(s, 1, Len(s) - 1))
    ELSE s

\* str.strip()
Strip(s) == RStrip(LStrip(s))

\* str.split(sep): the segments between occurrences of sep, at least one
RECURSIVE SplitFrom(_, _, _)
SplitFrom(s, sep, cur) ==
    IF s = <<>> THEN <<cur>>
    ELSE IF Head(s) = sep THEN <<cur>> \o SplitFrom(Tail(s), sep, <<>>)
    ELSE SplitFrom(Tail(s), sep, Append(cur, Head(s)))

Split(s, sep) == SplitFrom(s, sep, <<>>)

\* Python truthiness of an Optional[str]
Opt(s) == [given |-> TRUE, val |-> s]
NoneStr == [given |-> FALSE, val |-> <<>>]
Truthy(o) == o.given /\ o.val # <<>>

---------------------------------------------------------------------------
(* JSON-like values (payloads, conditions, operands) as tagged records of  *)
(* one shape: t is the Python type, n the number (1/0 for a bool), s the   *)
(* string, m the dict as a sequence of <<key, value>> entries in order.    *)

JNull == [t |-> "null", n |-> 0, s |-> <<>>, m |-> <<>>]
JNum(x) == [t |-> "num", n |-> x, s |-> <<>>, m |-> <<>>]
JBool(b) == [t |-> "bool", n |-> IF b THEN 1 ELSE 0, s |-> <<>>, m |-> <<>>]
JStr(x) == [t |-> "str", n |-> 0, s |-> x, m |-> <<>>]
JMap(entries) == [t |-> "map", n |-> 0, s |-> <<>>, m |-> entries]

\* bool is a subclass of int in Python
IsNumeric(v) == v.t \in {"num", "bool"}

HasKey(m, k) == \E i \in 1..Len(m) : m[i][1] = k
Lookup(m, k) == m[CHOOSE i \in 1..Len(m) : m[i][1] = k][2]

\* Python ==
RECURSIVE JEq(_, _)
JEq(a, b) ==
    IF IsNumeric(a) /\ IsNumeric(b) THEN a.n = b.n
    ELSE IF a.t # b.t THEN FALSE
    ELSE IF a.t = "null" THEN TRUE
    ELSE IF a.t = "str" THEN a.s = b.s
    ELSE /\ Len(a.m) = Len(b.m)
         /\ \A i \in 1..Len(a.m) :
               /\ HasKey(b.m, a.m[i][1])
               /\ JEq(a.m[i][2], Lookup(b.m, a.m[i][1]))

\* bool(x)
JTruthy(v) ==
    IF v.t = "null" THEN FALSE
    ELSE IF IsNumeric(v) THEN v.n # 0
    ELSE IF v.t = "str" THEN v.s # <<>>
    ELSE v.m # <<>>

Alphabet == <<" ", "$", ".", "_", "a", "b", "c", "d", "e", "f", "g", "h", "i",
              "j", "k", "l", "m", "n", "o", "p", "q", "r", "s", "t", "u", "v",
              "w", "x", "y", "z">>
Ord(c) == CHOOSE i \in 1..Len(Alphabet) : Alphabet[i] = c

RECURSIVE StrLess(_, _)
StrLess(a, b) ==
    IF b = <<>> THEN FALSE
    ELSE IF a = <<>> THEN TRUE
    ELSE IF Head(a) = Head(b) THEN StrLess(Tail(a), Tail(b))
    ELSE Ord(Head(a)) < Ord(Head(b))

\* Python <, >: "lt", "eq", "gt", or "err" for a TypeError
JCmp(a, b) ==
    IF IsNumeric(a) /\ IsNumeric(b)
    THEN IF a.n < b.n THEN "lt" ELSE IF a.n > b.n THEN "gt" ELSE "eq"
    ELSE IF a.t = "str" /\ b.t = "str"
    THEN IF StrLess(a.s, b.s) THEN "lt"
         ELSE IF StrLess(b.s, a.s) THEN "gt" ELSE "eq"
    ELSE "err"

\* RoutingService._get_nested_value; None is JNull
RECURSIVE Descend(_, _)
Descend(value, keys) ==
    IF keys = <<>> THEN value
    ELSE IF value.t = "map" /\ HasKey(value.m, Head(keys))
    THEN Descend(Lookup(value.m, Head(keys)), Tail(keys))
    ELSE JNull

GetNestedValue(data, key_path) == Descend(data, Split(key_path, "."))

\* a variant operator chain that ends in "else: return False"
EvalOperator_UnknownFails(operator, operand, value) ==
    LET ordered(ok) ==
            IF value.t = "null" THEN "F"
            ELSE LET c == JCmp(value, operand)
                 IN  IF c = "err" THEN "E" ELSE IF c \in ok THEN "T" ELSE "F"
    IN  IF operator = S_gt THEN ordered({"gt"})
        ELSE IF operator = S_lt THEN ordered({"lt"})
        ELSE IF operator = S_gte THEN ordered({"gt", "eq"})
        ELSE IF operator = S_lte THEN ordered({"lt", "eq"})
        ELSE IF operator = S_eq THEN (IF JEq(value, operand) THEN "T" ELSE "F")
        ELSE IF operator = S_ne THEN (IF JEq(value, operand) THEN "F" ELSE "T")
        ELSE IF operator = S_exists
        THEN IF JTruthy(operand) /\ value.t = "null" THEN "F"
             ELSE IF ~JTruthy(operand) /\ value.t # "null" THEN "F"
             ELSE "T"
        ELSE "F"

\* One operator entry of _evaluate_condition: "T" goes on, "F" is the
\* return False, "E" an exception (a TypeError of the comparison).
EvalOperator(operator, operand, value) ==
    LET ordered(ok) ==
            IF value.t = "null" THEN "F"
            ELSE LET c == JCmp(value, operand)
                 IN  IF c = "err" THEN "E" ELSE IF c \in ok THEN "T" ELSE "F"
    IN  IF operator = S_gt THEN ordered({"gt"})
        ELSE IF operator = S_lt THEN ordered({"lt"})
        ELSE IF operator = S_gte THEN ordered({"gt", "eq"})
        ELSE IF operator = S_lte THEN ordered({"lt", "eq"})
        ELSE IF operator = S_eq THEN (IF JEq(value, operand) THEN "T" ELSE "F")
        ELSE IF operator = S_ne THEN (IF JEq(value, operand) THEN "F" ELSE "T")
        ELSE IF operator = S_exists
        THEN IF JTruthy(operand) /\ value.t = "null" THEN "F"
             ELSE IF ~JTruthy(operand) /\ value.t # "null" THEN "F"
             ELSE "T"
        ELSE "T"

\* the inner loop over expected.items(), from entry i on
RECURSIVE EvalOperators(_, _, _)
EvalOperators(ops, value, i) ==
    IF i > Len(ops) THEN "T"
    ELSE LET r == EvalOperator(ops[i][1], ops[i][2], value)
         IN  IF r = "T" THEN EvalOperators(ops, value, i + 1) ELSE r

\* one key of the condition
EvalKey(key, expected, payload) ==
    LET value == GetNestedValue(payload, key)
    IN  IF expected.t = "map" THEN EvalOperators(expected.m, value, 1)
        ELSE IF JEq(value, expected) THEN "T" ELSE "F"

\* a variant loop that stops after the entry it starts at
EvalKeys_FirstKeyOnly(entries, payload, i) ==
    IF i > Len(entries) THEN "T"
    ELSE EvalKey(entries[i][1], entries[i][2], payload)

\* the outer loop over condition.items(), from entry i on
RECURSIVE EvalKeys(_, _, _)
EvalKeys(entries, payload, i) ==
    IF i > Len(entries) THEN "T"
    ELSE LET r == EvalKey(entries[i][1], entries[i][2], payload)
         IN  IF r = "T" THEN EvalKeys(entries, payload, i + 1) ELSE r

\* RoutingService._evaluate_condition: a condition that is no dict has no
\* items() and raises inside the try; every exception returns False.
EvaluateCondition(condition, payload) ==
    IF condition.t # "map" THEN FALSE
    ELSE EvalKeys(condition.m, payload, 1) = "T"

\* a variant executor: no else branch for an unknown destination type
ExecuteRule_UnknownSucceeds(rule) == rule.destination_config.t = "map"

\* RoutingService._execute_rule: the three destination types are logged
\* and succeed; any other type is a failure.
\* destination_config.get(...) raises on a config that is no dict, and any
\* exception is the return False of the except clause.
ExecuteRule(rule) ==
    /\ rule.destination_type \in {S_webhook, S_database_table, S_queue}
    /\ rule.destination_config.t = "map"

---------------------------------------------------------------------------
(* The rule store and PostgresRoutingRuleRepository.get_active_rules.      *)

\* ORDER BY priority DESC, rule_id ASC
\* a variant ordering: equal priorities in descending rule id
RuleBefore_IdDescending(a, b) ==
    \/ a.priority > b.priority
    \/ a.priority = b.priority /\ a.rule_id > b.rule_id

\* a variant ordering: ORDER BY priority ASC
RuleBefore_PriorityAscending(a, b) ==
    \/ a.priority < b.priority
    \/ a.priority = b.priority /\ a.rule_id < b.rule_id

RuleBefore(a, b) ==
    \/ a.priority > b.priority
    \/ a.priority = b.priority /\ a.rule_id < b.rule_id

\* the rows at the positions idx of table, in ORDER BY order
RECURSIVE OrderBy(_, _)
OrderBy(table, idx) ==
    IF idx = {} THEN <<>>
    ELSE LET first == CHOOSE i \in idx :
                        \A j \in idx \ {i} : RuleBefore(table[i], table[j])
         IN  <<table[first]>> \o OrderBy(table, idx \ {first})

\* a variant WHERE clause: the type filter applied also without a type
RuleSelected_AlwaysFiltered(row, app_id, event_type) ==
    /\ row.app_id = app_id
    /\ row.is_active
    /\ \/ ~row.event_type_filter.given
       \/ Truthy(event_type) /\ row.event_type_filter.val = event_type.val

\* the WHERE clause: with a truthy event_type the query filters on it,
\* with None or "" it does not
RuleSelected(row, app_id, event_type) ==
    /\ row.app_id = app_id
    /\ row.is_active
    /\ Truthy(event_type) =>
         (~row.event_type_filter.given \/ row.event_type_filter.val = event_type.val)

\* the position of the row with this rule_id, 0 when there is none
RowOf(table, rule_id) ==
    IF \E i \in 1..Len(table) : table[i].rule_id = rule_id
    THEN CHOOSE i \in 1..Len(table) : table[i].rule_id = rule_id
    ELSE 0

\* the rows get_active_rules returns when its query succeeds
GetActiveRules(table, app_id, event_type) ==
    OrderBy(table, {i \in 1..Len(table) : RuleSelected(table[i], app_id, event_type)})

\* get_active_rules as called: a database error is logged and answered []
GetActiveRulesResult(table, app_id, event_type, db) ==
    IF db = "ok" THEN GetActiveRules(table, app_id, event_type) ELSE <<>>

---------------------------------------------------------------------------
(* Inputs of the model.                                                    *)

AppIds == {1, 2}
IngestAppIds == {1}

\* the payload of the documented ingest request, {"total": 75}
PayloadTotal75 == JMap(<< <<S_total, JNum(75)>> >>)

\* {"total": {"$gt": 50}} and the documented {"payload.total": {"$gt": 50}}
CondTotalGt50 == JMap(<< <<S_total, JMap(<< <<S_gt, JNum(50)>> >>)>> >>)
CondPayloadTotalGt50 ==
    JMap(<< <<S_payload_total, JMap(<< <<S_gt, JNum(50)>> >>)>> >>)

ConfigMap == JMap(<<>>)

Shape(app, filter, cond, dest, prio, active) ==
    [app_id |-> app, event_type_filter |-> filter, condition |-> cond,
     destination_type |-> dest, destination_config |-> ConfigMap,
     priority |-> prio, is_active |-> active]

\* rule rows of the pipeline specification, by rule_id: a matching rule
\* whose destination type is unknown, a rule that does not match the
\* payload, a matching webhook rule, an inactive rule for another event type
PipelineRows ==
    << Shape(1, NoneStr, CondTotalGt50, S_email, 20, TRUE),
       Shape(1, NoneStr, CondPayloadTotalGt50, S_queue, 10, TRUE),
       Shape(1, Opt(S_order_created), CondTotalGt50, S_webhook, 10, TRUE),
       Shape(1, Opt(S_user_login), CondTotalGt50, S_database_table, 20, FALSE) >>

\* rule rows of the selector specification: the columns the query reads
SelectorShapes ==
    { Shape(1, NoneStr, CondTotalGt50, S_webhook, 5, TRUE),
      Shape(1, Opt(S_order_created), CondTotalGt50, S_webhook, 20, TRUE),
      Shape(1, NoneStr, CondTotalGt50, S_webhook, 1, TRUE),
      Shape(1, Opt(S_order_created), CondTotalGt50, S_webhook, 20, FALSE),
      Shape(2, NoneStr, CondTotalGt50, S_webhook, 5, TRUE) }

Row(id, shape) ==
    [rule_id |-> id, app_id |-> shape.app_id,
     event_type_filter |-> shape.event_type_filter,
     condition |-> shape.condition,
     destination_type |-> shape.destination_type,
     destination_config |-> shape.destination_config,
     priority |-> shape.priority, is_active |-> shape.is_active]

\* a table of n rows: rule_id is the serial number of the row
WithIds(rows) == [i \in 1..Len(rows) |-> Row(i, rows[i])]

Tables(shapes, max) ==
    UNION { { WithIds(rows) : rows \in [1..n -> shapes] } : n \in 0..max }

\* the rows of all with rule_id in ids, in rule_id order (the other rows
\* were deleted, or never created)
RECURSIVE Kept(_, _, _)
Kept(all, ids, i) ==
    IF i > Len(all) THEN <<>>
    ELSE (IF i \in ids THEN <<Row(i, all[i])>> ELSE <<>>) \o Kept(all, ids, i + 1)

\* the stores of the pipeline specification: the empty one, and the last
\* row with any of the rows before it
PipelineTables ==
    {<<>>} \cup { Kept(PipelineRows, ids \cup {Len(PipelineRows)}, 1) :
                    ids \in SUBSET (1..(Len(PipelineRows) - 1)) }

\* event_type as sent to POST /ingest, and as asked of the rule listing
IngestTypes == {S_order_padded, S_blank}
ListingTypes == {NoneStr, Opt(S_empty), Opt(S_order_created), Opt(S_user_login)}

---------------------------------------------------------------------------
(* State of a routing task.                                                *)

NoEvent == [event_id |-> 0, app_id |-> 0, event_type |-> <<>>,
            payload |-> JNull, metadata |-> JNull, processed |-> FALSE]

NoSummary == [returned |-> FALSE, error |-> FALSE, has_ids |-> FALSE,
              rules_evaluated |-> 0, rules_matched |-> 0, rules_executed |-> 0,
              matched_rule_ids |-> <<>>, executed_rule_ids |-> <<>>]

IdlePass == [pc |-> "idle", origin |-> "none", event_id |-> 0,
             event |-> NoEvent, fetched |-> FALSE, rules |-> <<>>, idx |-> 0,
             matched_rules |-> <<>>, executed_rules |-> <<>>,
             calls |-> <<>>, fault |-> "none", raised |-> FALSE,
             escaped |-> FALSE, summary |-> NoSummary]

NoResponse == [status |-> 0, event_id |-> 0, tasks |-> {}]

NoListing == [called |-> FALSE, app_id |-> 0, event_type |-> NoneStr,
              db |-> "ok", result |-> <<>>]

NoInvocation == [op |-> "none"]

\* GlobalContext.__init__: self.settings = {}
NoSettings == [set |-> FALSE, correlation_id |-> <<>>]

\* the serial has issued the rule ids of the rows there are
LastRuleId(table) == IF table = <<>> THEN 0 ELSE table[Len(table)].rule_id

\* no request in flight, no connection open, an empty global context
AdminInit ==
    /\ rule_id_seq = LastRuleId(rules)
    /\ connections = 0
    /\ global_context = NoSettings
    /\ requests = <<>>

FreePasses == {p \in PassIds : passes[p].pc = "idle"}
NextPass == CHOOSE p \in FreePasses : \A q \in FreePasses : p <= q

Init ==
    /\ events = <<>>
    /\ rules \in PipelineTables
    /\ response = NoResponse
    /\ passes = [p \in PassIds |-> IdlePass]
    /\ listing = NoListing
    /\ invocation = NoInvocation
    /\ AdminInit

---------------------------------------------------------------------------
(* POST /ingest/{app_id}: ingest_data and DataIngestionService.ingest_event *)

\* a variant check without the strip
ValidEventType_NoStrip(event_type) == event_type # <<>>

\* ingest_event's check of event_type
ValidEventType(event_type) == event_type # <<>> /\ Strip(event_type) # <<>>

\* metadata or {} with the ingestion time added, the time left abstract
EnrichedMetadata == JMap(<< <<S_ingested_at, JStr(S_now)>> >>)

\* a variant entity created with processed = True
NewEvent_BornProcessed(app_id, event_type, payload) ==
    [event_id |-> Len(events) + 1, app_id |-> app_id,
     event_type |-> Strip(event_type), payload |-> payload,
     metadata |-> EnrichedMetadata, processed |-> TRUE]

\* the row persist_event inserts; event_id is the serial number
NewEvent(app_id, event_type, payload) ==
    [event_id |-> Len(events) + 1, app_id |-> app_id,
     event_type |-> Strip(event_type), payload |-> payload,
     metadata |-> EnrichedMetadata, processed |-> FALSE]

\* the HTTP status of ingest_data: ValueError is 400, another exception 500
IngestStatus(valid, db) ==
    IF ~valid THEN 400 ELSE IF db = "ok" THEN 201 ELSE 500

\* persist_event is reached only with a valid event_type
PersistOutcomes(event_type) ==
    IF ValidEventType(event_type) THEN {"ok", "error"} ELSE {"ok"}

\* background_tasks.add_task follows ingest_event in the try block: it is
\* reached only when ingest_event returned an id
\* a variant handler: the task added before the outcome is known
TasksScheduled_Always(status) == IF FreePasses # {} THEN {NextPass} ELSE {}

TasksScheduled(status) == IF status = 201 THEN {NextPass} ELSE {}

\* a variant handler that awaits the routing call: the pass is under way
\* when the response is built
ScheduledPass_Awaited(origin, event_id) ==
    [IdlePass EXCEPT !.pc = "fetch", !.origin = origin, !.event_id = event_id]

\* the task as add_task leaves it: added, not started
ScheduledPass(origin, event_id) ==
    [IdlePass EXCEPT !.pc = "scheduled", !.origin = origin, !.event_id = event_id]

IngestData(app_id, event_type, db) ==
    LET status == IngestStatus(ValidEventType(event_type), db)
        row == NewEvent(app_id, event_type, PayloadTotal75)
    IN  /\ status = 201 => FreePasses # {}
        /\ LET tasks == TasksScheduled(status)
           IN  /\ events' = IF status = 201 THEN Append(events, row) ELSE events
               /\ passes' = [p \in PassIds |->
                               IF p \in tasks
                               THEN ScheduledPass("ingest", row.event_id)
                               ELSE passes[p]]
               /\ response' = [status |-> status,
                               event_id |-> IF status = 201 THEN row.event_id ELSE 0,
                               tasks |-> tasks]
        /\ UNCHANGED <<rules, listing, invocation, admin>>

\* The routing task of a stored event is run once more (at-least-once
\* scheduling: the task function is called again with the same event id).
Redeliver(event_id) ==
    /\ event_id \in 1..Len(events)
    /\ FreePasses # {}
    /\ passes' = [passes EXCEPT ![NextPass] = ScheduledPass("redelivery", event_id)]
    /\ UNCHANGED <<events, rules, response, listing, invocation, admin>>

---------------------------------------------------------------------------
(* The background task async_apply_routing and RoutingService.apply_rules. *)

\* get_event: the row, or None when it is absent or the query failed
GetEvent(event_id, db) ==
    IF db = "ok" /\ event_id \in 1..Len(events) THEN events[event_id] ELSE NoEvent

\* a variant task without the "if event:" test
TaskRoutes_Always(event) == TRUE

\* "if event:" of async_apply_routing: apply_rules is called for an event
\* that was found
TaskRoutes(event) == event # NoEvent

\* "except Exception" of async_apply_routing: what apply_rules raises is
\* logged, the task ends without an exception
TaskPropagates(raised) == FALSE

TaskGetEvent(p, db) ==
    LET event == GetEvent(passes[p].event_id, db)
    IN  /\ passes[p].pc = "scheduled"
        /\ passes' = [passes EXCEPT ![p] =
              IF TaskRoutes(event)
              THEN [@ EXCEPT !.pc = "fetch", !.event = event,
                             !.fault = IF event = NoEvent THEN "lookup"
                                       ELSE passes[p].fault]
              ELSE [@ EXCEPT !.pc = "done", !.fault = "lookup"]]
        /\ UNCHANGED <<events, rules, response, listing, invocation, admin>>

\* the except clause of apply_rules: the summary with the error field
ErrorSummary ==
    [NoSummary EXCEPT !.returned = TRUE, !.error = TRUE]

\* the summary of the branch "if not rules"
EmptySummary ==
    [NoSummary EXCEPT !.returned = TRUE]

\* the summary after the loop
\* a variant summary: the evaluated count taken from the matches
LoopSummary_MatchedAsEvaluated(pass) ==
    [returned |-> TRUE, error |-> FALSE, has_ids |-> TRUE,
     rules_evaluated |-> Len(pass.matched_rules),
     rules_matched |-> Len(pass.matched_rules),
     rules_executed |-> Len(pass.executed_rules),
     matched_rule_ids |-> pass.matched_rules,
     executed_rule_ids |-> pass.executed_rules]

\* a variant summary: the executed count taken from the matches
LoopSummary_ExecutedAsMatched(pass) ==
    [returned |-> TRUE, error |-> FALSE, has_ids |-> TRUE,
     rules_evaluated |-> Len(pass.rules),
     rules_matched |-> Len(pass.matched_rules),
     rules_executed |-> Len(pass.matched_rules),
     matched_rule_ids |-> pass.matched_rules,
     executed_rule_ids |-> pass.executed_rules]

LoopSummary(pass) ==
    [returned |-> TRUE, error |-> FALSE, has_ids |-> TRUE,
     rules_evaluated |-> Len(pass.rules),
     rules_matched |-> Len(pass.matched_rules),
     rules_executed |-> Len(pass.executed_rules),
     matched_rule_ids |-> pass.matched_rules,
     executed_rule_ids |-> pass.executed_rules]

\* a variant without the except clause: a raising repository call escapes
Propagates_Raise(out) == out = "raise"

\* "except Exception" of apply_rules catches whatever a repository call
\* raises: nothing is propagated to the caller
Propagates(out) == FALSE

\* a variant empty branch: return without marking or summary
PcAfterFetch_SkipEmpty(fetched_rules) == IF fetched_rules = <<>> THEN "done" ELSE "loop"

\* where the pass goes after the fetch: both branches end in the mark
PcAfterFetch(fetched_rules) == IF fetched_rules = <<>> THEN "mark" ELSE "loop"

\* out: "ok", "db_error" (the repository logs it and returns []), or
\* "raise" (the injected IRoutingRuleRepository raises)
ApplyRulesFetch(p, out) ==
    LET pass == passes[p]
        got == GetActiveRulesResult(rules, pass.event.app_id,
                                    Opt(pass.event.event_type),
                                    IF out = "ok" THEN "ok" ELSE "error")
    IN  /\ pass.pc = "fetch"
        /\ passes' = [passes EXCEPT ![p] =
              IF out = "raise"
              THEN [@ EXCEPT !.pc = "done", !.fault = "fetch_raise",
                             !.raised = Propagates(out),
                             !.escaped = TaskPropagates(Propagates(out)),
                             !.summary = IF Propagates(out) THEN NoSummary
                                         ELSE ErrorSummary]
              ELSE [@ EXCEPT !.pc = PcAfterFetch(got), !.fetched = TRUE,
                             !.rules = got, !.idx = 1]]
        /\ UNCHANGED <<events, rules, response, listing, invocation, admin>>

\* the if of the loop body: every rule is tested on its own, whatever the
\* rules before it did
\* a variant loop: first-match, no rule is tried after a match
LoopMatches_FirstOnly(pass, rule) ==
    /\ pass.matched_rules = <<>>
    /\ EvaluateCondition(rule.condition, pass.event.payload)

LoopMatches(pass, rule) == EvaluateCondition(rule.condition, pass.event.payload)

\* a variant loop: the mark follows the first rule
PcAfterRule_MarkEarly(idx, n) == "mark"

\* the for loop goes on to the next rule, and to the mark after the last
PcAfterRule(idx, n) == IF idx = n THEN "mark" ELSE "loop"

Call(op, rule_id) == [op |-> op, rule_id |-> rule_id]

\* a variant loop that reads the rule again from the store at each turn
LoopRule_ReadAgain(pass, table) ==
    LET i == RowOf(table, pass.rules[pass.idx].rule_id)
    IN  IF i # 0 THEN table[i] ELSE pass.rules[pass.idx]

\* "for rule in rules": the loop walks the list the fetch returned
LoopRule(pass, table) == pass.rules[pass.idx]

\* one iteration of "for rule in rules"
ApplyRulesEvaluate(p) ==
    LET pass == passes[p]
        rule == LoopRule(pass, rules)
        match == LoopMatches(pass, rule)
        success == match /\ ExecuteRule(rule)
    IN  /\ pass.pc = "loop"
        /\ passes' = [passes EXCEPT ![p] =
              [@ EXCEPT !.idx = pass.idx + 1,
                        !.pc = PcAfterRule(pass.idx, Len(pass.rules)),
                        !.matched_rules = IF match THEN Append(@, rule.rule_id) ELSE @,
                        !.executed_rules = IF success THEN Append(@, rule.rule_id) ELSE @,
                        !.calls = @ \o <<Call("evaluate", rule.rule_id)>>
                                    \o (IF match THEN <<Call("execute", rule.rule_id)>>
                                        ELSE <<>>)]]
        /\ UNCHANGED <<events, rules, response, listing, invocation, admin>>

\* UPDATE data_events SET processed = TRUE WHERE event_id = %s
\* a variant update that changes no row
MarkProcessed_NoOp(table, event_id) == table

\* a variant update that flips the flag
MarkProcessed_Toggle(table, event_id) ==
    [i \in 1..Len(table) |->
        IF table[i].event_id = event_id
        THEN [table[i] EXCEPT !.processed = ~@]
        ELSE table[i]]

MarkProcessed(table, event_id) ==
    [i \in 1..Len(table) |->
        IF table[i].event_id = event_id
        THEN [table[i] EXCEPT !.processed = TRUE]
        ELSE table[i]]

\* out: "ok", "db_error" (the repository logs it and returns False), or
\* "raise" (the injected IDataEventRepository raises)
ApplyRulesMark(p, out) ==
    LET pass == passes[p]
    IN  /\ pass.pc = "mark"
        /\ events' = IF out = "ok" THEN MarkProcessed(events, pass.event_id) ELSE events
        /\ passes' = [passes EXCEPT ![p] =
              [@ EXCEPT !.pc = "done",
                        !.calls = Append(@, Call("mark", 0)),
                        !.fault = IF out = "ok" THEN pass.fault
                                  ELSE IF out = "raise" THEN "mark_raise"
                                  ELSE "mark_error",
                        !.raised = out = "raise" /\ Propagates(out),
                        !.escaped = TaskPropagates(out = "raise" /\ Propagates(out)),
                        !.summary = IF out = "raise"
                                    THEN (IF Propagates(out) THEN NoSummary
                                          ELSE ErrorSummary)
                                    ELSE IF pass.rules = <<>> THEN EmptySummary
                                    ELSE LoopSummary(pass)]]
        /\ UNCHANGED <<rules, response, listing, invocation, admin>>

---------------------------------------------------------------------------
(* The rule listing: RoutingRuleService.get_rules_for_app.                 *)

ListRules(app_id, event_type, db) ==
    /\ listing' = [called |-> TRUE, app_id |-> app_id, event_type |-> event_type,
                   db |-> db,
                   result |-> GetActiveRulesResult(rules, app_id, event_type, db)]
    /\ UNCHANGED <<events, rules, response, passes, invocation, admin>>

---------------------------------------------------------------------------
(* Direct calls of RoutingService._evaluate_condition and _execute_rule on *)
(* a stored rule and the payload of a stored event.                        *)

\* payloads {"total": n}
TotalPayload(n) == JMap(<< <<S_total, JNum(n)>> >>)

Totals == {49, 50, 51, 75}

\* a one-entry operator object {operator: operand}
Op(operator, operand) == JMap(<< <<operator, operand>> >>)

\* a one-key condition {key: expected}
Cond(key, expected) == JMap(<< <<key, expected>> >>)

\* event payloads: maps with and without the keys asked for, a null value,
\* a string where a number is compared, nested maps, a non-map value on
\* the path, and a payload that is no map
CallPayloads ==
    { TotalPayload(n) : n \in Totals } \cup
    { JMap(<<>>),
      JMap(<< <<S_total, JStr(S_queue)>> >>),
      JMap(<< <<S_x, JNull>> >>),
      JMap(<< <<S_x, JNum(1)>>, <<S_total, JNum(75)>> >>),
      JMap(<< <<S_user, JMap(<< <<S_id, JNum(7)>> >>)>> >>),
      JMap(<< <<S_user, JNum(5)>> >>),
      JMap(<< <<S_payload, TotalPayload(75)>> >>),
      JNull }

\* conditions: literals, every operator, an unknown operator, two keys and
\* two operators in both orders, an operand of another type, the empty
\* condition, and conditions that are no map
CallConditions ==
    { CondPayloadTotalGt50, CondTotalGt50,
      Cond(S_total, JNum(75)),
      Cond(S_x, JNull),
      Cond(S_user_id, JNum(7)),
      Cond(S_total, Op(S_lt, JNum(51))),
      Cond(S_total, Op(S_gte, JNum(50))),
      Cond(S_total, Op(S_lte, JNum(50))),
      Cond(S_total, Op(S_eq, JNum(75))),
      Cond(S_total, Op(S_ne, JNum(75))),
      Cond(S_total, Op(S_typo, JNum(5))),
      Cond(S_total, Op(S_gt, JStr(S_queue))),
      Cond(S_x, Op(S_exists, JBool(TRUE))),
      Cond(S_x, Op(S_exists, JBool(FALSE))),
      Cond(S_user_id, Op(S_exists, JBool(TRUE))),
      Cond(S_user_id, Op(S_exists, JBool(FALSE))),
      JMap(<< <<S_total, Op(S_gt, JNum(50))>>, <<S_x, Op(S_exists, JBool(TRUE))>> >>),
      JMap(<< <<S_x, Op(S_exists, JBool(TRUE))>>, <<S_total, Op(S_gt, JNum(50))>> >>),
      Cond(S_total, JMap(<< <<S_gt, JNum(49)>>, <<S_lt, JStr(S_queue)>> >>)),
      Cond(S_total, JMap(<< <<S_lt, JStr(S_queue)>>, <<S_gt, JNum(49)>> >>)),
      Cond(S_x, Op(S_typo, JNum(5))),
      Cond(S_total, JMap(<< <<S_typo, JNum(5)>>, <<S_gt, JNum(50)>> >>)),
      Cond(S_total, JMap(<< <<S_gt, JNum(50)>>, <<S_typo, JStr(S_queue)>> >>)),
      JMap(<< <<S_x, Op(S_typo, JNum(5))>>, <<S_total, Op(S_lt, JNum(51))>> >>),
      Cond(S_total, JMap(<<>>)),
      JMap(<<>>),
      JNull,
      JStr(S_total) }

CallDestinationTypes == {S_webhook, S_database_table, S_queue, S_email}
CallDestinationConfigs == {ConfigMap, JNull}

EventRow(event_id, payload) ==
    [event_id |-> event_id, app_id |-> 1, event_type |-> S_order_created,
     payload |-> payload, metadata |-> EnrichedMetadata, processed |-> FALSE]

RuleRow(rule_id, condition, destination_type, destination_config) ==
    [Row(rule_id, Shape(1, NoneStr, condition, destination_type, 0, TRUE))
        EXCEPT !.destination_config = destination_config]

\* what the body of _evaluate_condition comes to: "T" the return True, "F"
\* a return False, "E" an exception raised inside the try
EvaluationOutcome(condition, payload) ==
    IF condition.t # "map" THEN "E" ELSE EvalKeys(condition.m, payload, 1)

\* a variant without the except clause
EvaluationRaises_NoExcept(outcome) == outcome = "E"

\* "except Exception" of _evaluate_condition: nothing is raised
EvaluationRaises(outcome) == FALSE

EvaluateCall(r, e) ==
    LET outcome == EvaluationOutcome(rules[r].condition, events[e].payload)
    IN  /\ invocation' = [op |-> "evaluate", rule_id |-> r, event_id |-> e,
                          outcome |-> outcome,
                          raised |-> EvaluationRaises(outcome),
                          result |-> EvaluateCondition(rules[r].condition,
                                                       events[e].payload)]
        /\ UNCHANGED <<events, rules, response, passes, listing, admin>>

\* "except Exception" of _execute_rule: nothing is raised
ExecutionRaises(rule) == FALSE

ExecuteCall(r, e) ==
    /\ invocation' = [op |-> "execute", rule_id |-> r, event_id |-> e,
                      outcome |-> "none",
                      raised |-> ExecutionRaises(rules[r]),
                      result |-> ExecuteRule(rules[r])]
    /\ UNCHANGED <<events, rules, response, passes, listing, admin>>

---------------------------------------------------------------------------
(* One call of DataIngestionService.ingest_event in its steps: validation, *)
(* persist_event, and the attempts of execute_with_retry.                  *)

\* the default of execute_with_retry's max_retries
max_retries == 3

\* event_type and payload as passed to ingest_event
CallEventTypes == {S_empty, S_blank, S_order_padded, S_user_login}
CallIngestPayloads == {PayloadTotal75, JMap(<<>>), JStr(S_total), JNull}

\* IngestEventRequest: event_type of at least one character, payload a dict
RequestModelAccepts(event_type, payload) ==
    Len(event_type) >= 1 /\ payload.t = "map"

\* ingest_event's two checks
ValidIngest(event_type, payload) ==
    ValidEventType(event_type) /\ payload.t = "map"

\* the HTTP answer to a request with these values: 422 from the request
\* model, else the status of ingest_data
HttpStatus(event_type, payload, db) ==
    IF ~RequestModelAccepts(event_type, payload) THEN 422
    ELSE IngestStatus(ValidIngest(event_type, payload), db)

\* an exception of attempt n of execute_with_retry; kind is the outcome
\* of the attempt
Error(n, kind) == [attempt |-> n, kind |-> kind]
NoError == Error(0, "none")

\* the except clause of execute_with_retry names OperationalError,
\* DatabaseError and IntegrityError of psycopg2
Caught(out) == out \in {"execute_error", "commit_error"}

\* a variant loop that tries once more than max_retries
LastAttempt_OneMore(n) == n = max_retries + 1

\* "if attempt == max_retries - 1: raise e", attempt counted from 0
LastAttempt(n) == n = max_retries

IngestCall(app_id, event_type, payload) ==
    LET valid == ValidIngest(event_type, payload)
    IN  /\ IF invocation.op = "none" THEN TRUE ELSE invocation.pc = "done"
        /\ Len(events) < MaxEvents
        /\ invocation' =
              [op |-> "ingest", app_id |-> app_id, event_type |-> event_type,
               payload |-> payload, before |-> Len(events),
               pc |-> IF valid THEN "persist" ELSE "done",
               persist_calls |-> IF valid THEN 1 ELSE 0,
               attempt |-> 0, rollbacks |-> 0, errors |-> <<>>,
               raised_error |-> NoError,
               raised |-> IF valid THEN "none" ELSE "ValueError",
               result |-> 0,
               status |-> IF valid THEN 0
                          ELSE HttpStatus(event_type, payload, "ok")]
        /\ UNCHANGED <<events, rules, response, passes, listing, admin>>

\* persist_event could not get a usable connection: get_connection raised,
\* or execute_with_retry raised ConnectionError before its first attempt
PersistNoConnection ==
    /\ invocation.op = "ingest" /\ invocation.pc = "persist"
    /\ invocation.attempt = 0
    /\ invocation' = [invocation EXCEPT
          !.pc = "done", !.raised = "Exception",
          !.raised_error = Error(0, "no_connection"),
          !.status = HttpStatus(invocation.event_type, invocation.payload, "error")]
    /\ UNCHANGED <<events, rules, response, passes, listing, admin>>

\* a variant except clause without the rollback: the row of the failed
\* attempt stays
RolledBack_Kept(table, row) == Append(table, row)

\* connection.rollback() after a failed attempt: the INSERT of the attempt
\* is undone
RolledBack(table, row) == table

\* one attempt of execute_with_retry. out: "ok" (execute and commit went
\* through), "execute_error" or "commit_error" (the database reported an
\* error of the three classes caught: the transaction is not committed and
\* is rolled back), "other_error" (cursor.execute raised an exception of
\* another class, which leaves the loop at once; nothing was inserted)
PersistAttempt(out) ==
    LET call == invocation
        row == NewEvent(call.app_id, call.event_type, call.payload)
        n == call.attempt + 1
    IN  /\ call.op = "ingest" /\ call.pc = "persist"
        /\ IF out = "ok"
           THEN /\ events' = Append(events, row)
                /\ invocation' = [call EXCEPT
                      !.attempt = n, !.pc = "done", !.result = row.event_id,
                      !.status = HttpStatus(call.event_type, call.payload, "ok")]
           ELSE /\ events' = IF Caught(out) THEN RolledBack(events, row)
                            ELSE events
                /\ invocation' =
                      IF LastAttempt(n) \/ ~Caught(out)
                      THEN [call EXCEPT
                              !.attempt = n, !.pc = "done", !.raised = "Exception",
                              !.errors = Append(@, Error(n, out)),
                              !.rollbacks = IF Caught(out) THEN @ + 1 ELSE @,
                              !.raised_error = Error(n, out),
                              !.status = HttpStatus(call.event_type, call.payload,
                                                    "error")]
                      ELSE [call EXCEPT !.attempt = n,
                              !.errors = Append(@, Error(n, out)),
                              !.rollbacks = @ + 1]
        /\ UNCHANGED <<rules, response, passes, listing, admin>>

---------------------------------------------------------------------------
(* Rule management: RoutingRuleService behind the routing-rules router,    *)
(* over PostgresRoutingRuleRepository.                                     *)

\* a RoutingRule as the service is given it
RoutingRule(rule_id, rule_name, condition, destination_type, destination_config, is_active) ==
    [rule_id |-> rule_id, app_id |-> 1, rule_name |-> rule_name,
     event_type_filter |-> NoneStr, condition |-> condition,
     destination_type |-> destination_type,
     destination_config |-> destination_config,
     priority |-> 10, is_active |-> is_active]

\* the rules create_rule is called with: rule_id is None (0) before the
\* insert
CreateInputs ==
    { RoutingRule(0, n, c, d, g, TRUE) :
        n \in {S_x, S_blank, S_empty}, c \in {CondTotalGt50, JNull},
        d \in {S_webhook, S_queue, S_email}, g \in {ConfigMap, JNull} }

\* the four checks of create_rule; a rule that fails one is a ValueError
CreateAccepts(rule) ==
    /\ rule.rule_name # <<>> /\ Strip(rule.rule_name) # <<>>
    /\ rule.destination_type \in {S_webhook, S_database_table, S_queue}
    /\ rule.condition.t = "map"
    /\ rule.destination_config.t = "map"

\* out: "ok", "error" (the INSERT did not run) or "rolled_back" (it ran,
\* took a value of the serial, and was not committed)
CreateOutcomes == {"ok", "error", "rolled_back"}

\* POST /routing-rules: create_routing_rule and RoutingRuleService.create_rule
CreateRule(rule, out) ==
    LET valid == CreateAccepts(rule)
        rule_id == rule_id_seq + 1
    IN  /\ rules' = IF valid /\ out = "ok"
                     THEN Append(rules, [rule EXCEPT !.rule_id = rule_id])
                     ELSE rules
        /\ rule_id_seq' = IF valid /\ out # "error" THEN rule_id ELSE rule_id_seq
        /\ invocation' = [op |-> "create_rule",
                          rule_id |-> IF valid /\ out = "ok" THEN rule_id ELSE 0,
                          status |-> IF ~valid THEN 400
                                     ELSE IF out = "ok" THEN 201 ELSE 500]
        /\ UNCHANGED <<events, response, passes, listing,
                       connections, global_context, requests>>

\* request bodies of PUT /routing-rules/{rule_id}, as
\* model_dump(exclude_unset=True) gives them: the fields sent, with the
\* values sent (a field of UpdateRoutingRuleRequest may be sent as null)
UpdateBodies ==
    { <<>>,
      << <<"destination_type", S_email>> >>,
      << <<"destination_type", S_queue>> >>,
      << <<"condition", JNull>> >>,
      << <<"destination_config", JNull>> >>,
      << <<"is_active", FALSE>>, <<"destination_type", S_webhook>> >> }

\* existing_rule.model_copy(update=...): the fields of the body replace
\* those of the rule, without validation
RECURSIVE ModelCopy(_, _)
ModelCopy(rule, update) ==
    IF update = <<>> THEN rule
    ELSE ModelCopy([rule EXCEPT ![Head(update)[1]] = Head(update)[2]],
                   Tail(update))

\* PUT /routing-rules/{rule_id}: update_routing_rule, with
\* RoutingRuleService.get_rule and update_rule. get, put: the outcomes of
\* the SELECT and of the UPDATE
UpdateRule(rule_id, body, get, put) ==
    LET i == IF get = "ok" THEN RowOf(rules, rule_id) ELSE 0
    IN  /\ rules' = IF i # 0 /\ put = "ok"
                     THEN [rules EXCEPT ![i] = ModelCopy(rules[i], body)]
                     ELSE rules
        /\ invocation' = [op |-> "update_rule", rule_id |-> rule_id,
                          status |-> IF i = 0 THEN 404
                                     ELSE IF put = "ok" THEN 200 ELSE 500]
        /\ UNCHANGED <<events, response, passes, listing, admin>>

\* PATCH /routing-rules/{rule_id}/toggle: toggle_rule_status answers True
\* whenever the UPDATE ran, also when it changed no row
ToggleRule(rule_id, is_active, db) ==
    /\ rules' = IF db = "ok"
                 THEN [i \in 1..Len(rules) |->
                         IF rules[i].rule_id = rule_id
                         THEN [rules[i] EXCEPT !.is_active = is_active]
                         ELSE rules[i]]
                 ELSE rules
    /\ invocation' = [op |-> "toggle_rule", rule_id |-> rule_id,
                      status |-> IF db = "ok" THEN 200 ELSE 404]
    /\ UNCHANGED <<events, response, passes, listing, admin>>

\* the rows of table other than the row with this rule_id
RECURSIVE Without(_, _)
Without(table, rule_id) ==
    IF table = <<>> THEN <<>>
    ELSE (IF Head(table).rule_id = rule_id THEN <<>> ELSE <<Head(table)>>)
            \o Without(Tail(table), rule_id)

\* DELETE /routing-rules/{rule_id}
DeleteRule(rule_id, db) ==
    /\ rules' = IF db = "ok" THEN Without(rules, rule_id) ELSE rules
    /\ invocation' = [op |-> "delete_rule", rule_id |-> rule_id,
                      status |-> IF db = "ok" THEN 200 ELSE 404]
    /\ UNCHANGED <<events, response, passes, listing, admin>>

---------------------------------------------------------------------------
(* GET /events/app/{app_id}: get_events_for_app of the router, the service *)
(* and the repository.                                                     *)

\* the largest limit the router passes on
MaxLimit == 1000

\* limit and offset as sent in the query string: any integers
CallLimits == {-1, 0, 1, 100, MaxLimit, MaxLimit + 1}
CallOffsets == {-1, 0, 1}

\* "if limit > 1000: limit = 1000"
ClampLimit(limit) == IF limit > MaxLimit THEN MaxLimit ELSE limit

\* the offset goes to the service as it came
PassOffset(offset) == offset

\* the rows of table from position i down that the WHERE clause keeps:
\* ORDER BY created_at DESC gives the newest row first
RECURSIVE EventsDescending(_, _, _, _)
EventsDescending(table, i, app_id, event_type) ==
    IF i = 0 THEN <<>>
    ELSE (IF /\ table[i].app_id = app_id
             /\ Truthy(event_type) => table[i].event_type = event_type.val
          THEN <<table[i]>> ELSE <<>>)
            \o EventsDescending(table, i - 1, app_id, event_type)

\* get_events_by_app: LIMIT and OFFSET applied to the ordered rows; the
\* database refuses a negative LIMIT or OFFSET, and any error of the query
\* is logged and answered []
GetEventsByApp(table, app_id, event_type, limit, offset, db) ==
    LET rows == EventsDescending(table, Len(table), app_id, event_type)
        last == IF offset + limit < Len(rows) THEN offset + limit ELSE Len(rows)
    IN  IF db = "ok" /\ limit >= 0 /\ offset >= 0
        THEN SubSeq(rows, offset + 1, last)
        ELSE <<>>

ListEventsCall(app_id, event_type, limit, offset, db) ==
    LET passed_limit == ClampLimit(limit)
        passed_offset == PassOffset(offset)
    IN  /\ invocation' =
              [op |-> "list_events", app_id |-> app_id,
               event_type |-> event_type, limit |-> limit, offset |-> offset,
               passed_limit |-> passed_limit, passed_offset |-> passed_offset,
               status |-> 200,
               result |-> GetEventsByApp(events, app_id, event_type,
                                         passed_limit, passed_offset, db)]
        /\ UNCHANGED <<events, rules, response, passes, listing, admin>>

---------------------------------------------------------------------------
(* correlation_id_middleware and the GlobalContext singleton. Requests are *)
(* handled as coroutines of one event loop: a request gives way at every   *)
(* await, so the steps of several requests interleave.                     *)

\* the X-Correlation-ID header of a request: absent, empty, or a value
CallHeaders == {NoneStr, Opt(S_empty), Opt(S_corr_a), Opt(S_corr_b)}

\* str(uuid.uuid4()) of the n-th request: a value no other request has
Uuid4(n) == <<"u">> \o [i \in 1..n |-> "1"]

\* lines 14-16: the header when it is truthy, else a new uuid
CorrelationId(header, n) == IF Truthy(header) THEN header.val ELSE Uuid4(n)

\* GlobalContext.set("correlation_id", value)
ContextSet(settings, value) ==
    [settings EXCEPT !.set = TRUE, !.correlation_id = value]

\* GlobalContext.get("correlation_id"): the value, None when unset
ContextGet(settings) ==
    IF settings.set THEN Opt(settings.correlation_id) ELSE NoneStr

\* the middleware up to "await call_next(request)"
RequestArrives(header) ==
    LET n == Len(requests) + 1
        correlation_id == CorrelationId(header, n)
    IN  /\ n <= MaxRequests
        /\ requests' = Append(requests,
              [header |-> header, correlation_id |-> correlation_id,
               state_correlation_id |-> correlation_id,
               pc |-> "call_next", observed |-> NoneStr,
               response_header |-> NoneStr])
        /\ global_context' = ContextSet(global_context, correlation_id)
        /\ UNCHANGED <<events, rules, response, passes, listing, invocation,
                       rule_id_seq, connections>>

\* the handler: it reads request.state.correlation_id (ingest_data, line
\* 138)
RequestHandled(r) ==
    /\ r \in 1..Len(requests)
    /\ requests[r].pc = "call_next"
    /\ requests' = [requests EXCEPT ![r] =
          [@ EXCEPT !.pc = "respond",
                    !.observed = Opt(requests[r].state_correlation_id)]]
    /\ UNCHANGED <<events, rules, response, passes, listing, invocation,
                   rule_id_seq, connections, global_context>>

\* the middleware after call_next: the header of the response
RequestAnswered(r) ==
    /\ r \in 1..Len(requests)
    /\ requests[r].pc = "respond"
    /\ requests' = [requests EXCEPT ![r] =
          [@ EXCEPT !.pc = "done",
                    !.response_header = Opt(requests[r].correlation_id)]]
    /\ UNCHANGED <<events, rules, response, passes, listing, invocation,
                   rule_id_seq, connections, global_context>>

---------------------------------------------------------------------------
(* Specifications.                                                         *)

RepoOutcomes == {"ok", "db_error", "raise"}
DbOutcomes == {"ok", "error"}

Next ==
    \/ \E a \in IngestAppIds, t \in IngestTypes :
          \E db \in PersistOutcomes(t) : IngestData(a, t, db)
    \/ \E e \in 1..MaxPasses : Redeliver(e)
    \/ \E p \in PassIds, db \in DbOutcomes : TaskGetEvent(p, db)
    \/ \E p \in PassIds, out \in RepoOutcomes : ApplyRulesFetch(p, out)
    \/ \E p \in PassIds : ApplyRulesEvaluate(p)
    \/ \E p \in PassIds, out \in RepoOutcomes : ApplyRulesMark(p, out)

Spec == Init /\ [][Next]_vars

\* a step of some background task
TaskStep ==
    \E p \in PassIds :
        \/ \E db \in DbOutcomes : TaskGetEvent(p, db)
        \/ \E out \in RepoOutcomes : ApplyRulesFetch(p, out)
        \/ ApplyRulesEvaluate(p)
        \/ \E out \in RepoOutcomes : ApplyRulesMark(p, out)

\* The server's event loop runs the background tasks it was given: while a
\* task has a step left, some task step is taken. Every task is finite, so
\* every scheduled task is run to its end.
FairSpec == Spec /\ WF_vars(TaskStep)

SelectorInit ==
    /\ events = <<>>
    /\ rules \in Tables(SelectorShapes, MaxSelRules)
    /\ response = NoResponse
    /\ passes = [p \in PassIds |-> IdlePass]
    /\ listing = NoListing
    /\ invocation = NoInvocation
    /\ AdminInit

SelectorNext ==
    \E a \in AppIds, t \in ListingTypes, db \in DbOutcomes : ListRules(a, t, db)

SelectorSpec == SelectorInit /\ [][SelectorNext]_vars

\* one stored rule and one stored event, called on directly
RuleCallInit ==
    /\ events \in { <<EventRow(1, p)>> : p \in CallPayloads }
    /\ rules \in { <<RuleRow(1, c, d, g)>> :
                      c \in CallConditions, d \in CallDestinationTypes,
                      g \in CallDestinationConfigs }
    /\ response = NoResponse
    /\ passes = [p \in PassIds |-> IdlePass]
    /\ listing = NoListing
    /\ invocation = NoInvocation
    /\ AdminInit

RuleCallNext ==
    \/ \E r \in 1..Len(rules), e \in 1..Len(events) : EvaluateCall(r, e)
    \/ \E r \in 1..Len(rules), e \in 1..Len(events) : ExecuteCall(r, e)

RuleCallSpec == RuleCallInit /\ [][RuleCallNext]_vars

AttemptOutcomes == {"ok", "execute_error", "commit_error", "other_error"}

IngestInit ==
    /\ events = <<>>
    /\ rules = <<>>
    /\ response = NoResponse
    /\ passes = [p \in PassIds |-> IdlePass]
    /\ listing = NoListing
    /\ invocation = NoInvocation
    /\ AdminInit

IngestNext ==
    \/ \E a \in AppIds, t \in CallEventTypes, pl \in CallIngestPayloads :
          IngestCall(a, t, pl)
    \/ PersistNoConnection
    \/ \E out \in AttemptOutcomes : PersistAttempt(out)

IngestSpec == IngestInit /\ [][IngestNext]_vars

\* concurrent requests through the middleware
MiddlewareInit ==
    /\ events = <<>>
    /\ rules = <<>>
    /\ response = NoResponse
    /\ passes = [p \in PassIds |-> IdlePass]
    /\ listing = NoListing
    /\ invocation = NoInvocation
    /\ AdminInit

MiddlewareNext ==
    \/ \E header \in CallHeaders : RequestArrives(header)
    \/ \E r \in 1..MaxRequests : RequestHandled(r)
    \/ \E r \in 1..MaxRequests : RequestAnswered(r)

MiddlewareSpec == MiddlewareInit /\ [][MiddlewareNext]_vars

---------------------------------------------------------------------------
\* The connections of the repositories. Every repository operation asks the
\* database repository for a connection of its own; connections counts the
\* connections that were opened and that no operation has closed.

MaxOperations == 4

\* get_connection returns a new connection or raises ConnectionError; the
\* query on a connection returns or raises
ConnectionOutcomes == {"ok", "connect_error", "query_error"}

\* get_connection: the connections it opens
GetConnection(db) == IF db = "connect_error" THEN 0 ELSE 1

\* close_connection: the connections it closes
CloseConnection(opened) == opened

OperationsMade == IF invocation.op = "none" THEN 0 ELSE invocation.n

\* an operation of a repository, from its call to its return: closes says
\* whether it has a finally clause that closes the connection it opened
RepositoryOperation(op, db, closes, result) ==
    LET opened == GetConnection(db)
        closed == IF closes THEN CloseConnection(opened) ELSE 0
    IN  /\ OperationsMade < MaxOperations
        /\ connections' = connections + opened - closed
        /\ invocation' = [op |-> op, db |-> db, n |-> OperationsMade + 1,
                          open_before |-> connections, opened |-> opened,
                          closed |-> closed, result |-> result]
        /\ UNCHANGED <<events, rules, response, passes, listing,
                       rule_id_seq, global_context, requests>>

\* persist_event: the event id, or the exception raised again
persist_event(db) ==
    RepositoryOperation("persist_event", db, FALSE,
                        IF db = "ok" THEN "event_id" ELSE "raised")

\* get_event_by_id: the event, or None
get_event_by_id(db) ==
    RepositoryOperation("get_event_by_id", db, FALSE,
                        IF db = "ok" THEN "event" ELSE "none")

\* get_active_rules: the rules, or []
get_active_rules(db) ==
    RepositoryOperation("get_active_rules", db, FALSE,
                        IF db = "ok" THEN "rules" ELSE "empty")

\* mark_event_processed: True, or False
mark_event_processed(db) ==
    RepositoryOperation("mark_event_processed", db, FALSE,
                        IF db = "ok" THEN "true" ELSE "false")

\* persist_message: the message id, or None; the connection is closed in
\* the finally clause
persist_message(db) ==
    RepositoryOperation("persist_message", db, TRUE,
                        IF db = "ok" THEN "message_id" ELSE "none")

ConnectionInit ==
    /\ events = <<>>
    /\ rules = <<>>
    /\ response = NoResponse
    /\ passes = [p \in PassIds |-> IdlePass]
    /\ listing = NoListing
    /\ invocation = NoInvocation
    /\ AdminInit

ConnectionNext ==
    \/ \E db \in ConnectionOutcomes : persist_event(db)
    \/ \E db \in ConnectionOutcomes : get_event_by_id(db)
    \/ \E db \in ConnectionOutcomes : get_active_rules(db)
    \/ \E db \in ConnectionOutcomes : mark_event_processed(db)
    \/ \E db \in ConnectionOutcomes : persist_message(db)

ConnectionSpec == ConnectionInit /\ [][ConnectionNext]_vars

\* one ingested event and its routing pass, with rule management requests
\* answered between the steps of the pass
ConcurrentRules == Kept(PipelineRows, {1, 2, 3}, 1)

ConcurrentInit ==
    /\ events = <<>>
    /\ rules = ConcurrentRules
    /\ response = NoResponse
    /\ passes = [p \in PassIds |-> IdlePass]
    /\ listing = NoListing
    /\ invocation = NoInvocation
    /\ AdminInit

\* the bodies of the update requests: a rule moved down in priority, a
\* rule given another destination type
ConcurrentUpdates ==
    { <<1, << <<"priority", 5>> >> >>,
      <<3, << <<"destination_type", S_email>> >> >> }

ConcurrentNext ==
    \/ events = <<>> /\ IngestData(1, S_order_padded, "ok")
    \/ \E p \in PassIds : TaskGetEvent(p, "ok")
    \/ \E p \in PassIds : ApplyRulesFetch(p, "ok")
    \/ \E p \in PassIds : ApplyRulesEvaluate(p)
    \/ \E p \in PassIds : ApplyRulesMark(p, "ok")
    \/ rule_id_seq < Len(ConcurrentRules) + 1
          /\ CreateRule(RoutingRule(0, S_x, CondTotalGt50, S_queue, ConfigMap, TRUE),
                        "ok")
    \/ \E u \in ConcurrentUpdates : UpdateRule(u[1], u[2], "ok", "ok")
    \/ \E id \in {1, 3}, b \in BOOLEAN : ToggleRule(id, b, "ok")
    \/ DeleteRule(3, "ok")

ConcurrentSpec == ConcurrentInit /\ [][ConcurrentNext]_vars

\* the event listing over stores of up to two events
ListEventsInit ==
    /\ events \in { <<>>, <<EventRow(1, PayloadTotal75)>>,
                     <<EventRow(1, PayloadTotal75), EventRow(2, JMap(<<>>))>> }
    /\ rules = <<>>
    /\ response = NoResponse
    /\ passes = [p \in PassIds |-> IdlePass]
    /\ listing = NoListing
    /\ invocation = NoInvocation
    /\ AdminInit

ListEventsNext ==
    \E a \in AppIds, t \in {NoneStr, Opt(S_order_created)},
       limit \in CallLimits, offset \in CallOffsets, db \in DbOutcomes :
        ListEventsCall(a, t, limit, offset, db)

ListEventsSpec == ListEventsInit /\ [][ListEventsNext]_vars

\* rule management on a store that starts empty
RuleAdminInit ==
    /\ events = <<>>
    /\ rules = <<>>
    /\ response = NoResponse
    /\ passes = [p \in PassIds |-> IdlePass]
    /\ listing = NoListing
    /\ invocation = NoInvocation
    /\ AdminInit

RuleAdminNext ==
    \/ rule_id_seq < MaxRuleIds
          /\ \E rule \in CreateInputs, out \in CreateOutcomes : CreateRule(rule, out)
    \/ \E id \in 1..MaxRuleIds, body \in UpdateBodies, get, put \in DbOutcomes :
          UpdateRule(id, body, get, put)
    \/ \E id \in 1..MaxRuleIds, b \in BOOLEAN, db \in DbOutcomes :
          ToggleRule(id, b, db)
    \/ \E id \in 1..MaxRuleIds, db \in DbOutcomes : DeleteRule(id, db)

RuleAdminSpec == RuleAdminInit /\ [][RuleAdminNext]_vars

\* the rule of the documented create_routing_rule request
ExampleRule ==
    Row(1, Shape(1, Opt(S_order_created), CondPayloadTotalGt50, S_webhook, 10, TRUE))

\* the pipeline with the documented rule as the only rule of the store
ExampleInit ==
    /\ events = <<>>
    /\ rules = <<ExampleRule>>
    /\ response = NoResponse
    /\ passes = [p \in PassIds |-> IdlePass]
    /\ listing = NoListing
    /\ invocation = NoInvocation
    /\ AdminInit

ExampleSpec == ExampleInit /\ [][Next]_vars

---------------------------------------------------------------------------
(* Vocabulary of the claims.                                               *)

RuleIdsOf(rs) == [i \in 1..Len(rs) |-> rs[i].rule_id]

\* the rule ids of the calls of one kind, in call order
RECURSIVE CallsOf(_, _)
CallsOf(calls, op) ==
    IF calls = <<>> THEN <<>>
    ELSE (IF Head(calls).op = op THEN <<Head(calls).rule_id>> ELSE <<>>)
            \o CallsOf(Tail(calls), op)

Count(seq, x) == Cardinality({i \in 1..Len(seq) : seq[i] = x})

\* the passes in which apply_rules was entered
Entered(p) == passes[p].pc \in {"fetch", "loop", "mark", "done"} /\ passes[p].fault # "lookup"

Finished(p) == passes[p].pc = "done"

\* the rules of a pass evaluated so far
EvaluatedSoFar(p) ==
    IF passes[p].pc = "loop" THEN passes[p].idx - 1 ELSE Len(passes[p].rules)

\* no row of the rule store is an active rule for the event's app and type
NoActiveRuleFor(event) ==
    \A i \in 1..Len(rules) :
        \/ rules[i].app_id # event.app_id
        \/ ~rules[i].is_active
        \/ /\ rules[i].event_type_filter.given
           /\ rules[i].event_type_filter.val # event.event_type

ZeroCounts(summary) ==
    /\ summary.rules_evaluated = 0
    /\ summary.rules_matched = 0
    /\ summary.rules_executed = 0

---------------------------------------------------------------------------
C2_OneTaskPerIngestedEvent ==
    /\ response.status = 201 =>
         /\ Cardinality(response.tasks) = 1
         /\ response.event_id \in 1..Len(events)
         /\ \A p \in response.tasks :
               passes[p].origin = "ingest" /\ passes[p].event_id = response.event_id
    /\ response.status \in {400, 500} => response.tasks = {} /\ response.event_id = 0
    /\ \A e \in 1..Len(events) :
         Cardinality({p \in PassIds :
            passes[p].origin = "ingest" /\ passes[p].event_id = e}) = 1
    /\ \A p \in PassIds :
         passes[p].origin = "ingest" => passes[p].event_id \in 1..Len(events)

C2_Witness ==
    /\ response.status = 500
    /\ Len(events) = 1
    /\ Cardinality({p \in PassIds : passes[p].pc # "idle"}) = 1

(* C3. In a routing pass the executor is called exactly once for every     *)
(* evaluated rule whose condition matches the payload, whatever the rules  *)
(* before it did, and never for a rule whose condition does not match; the *)
(* matched ids are those of the matching rules and the executed ids those  *)
(* of the matching rules whose execution succeeded. With the rules 1, 2, 3 *)
(* where 1 and 3 match and the execution of 1 fails, matched_rule_ids has  *)
(* length 2 and executed_rule_ids is <<3>>.                                *)
C3_AllMatchesFanOut ==
    \A p \in PassIds :
        LET pass == passes[p]
            executed == CallsOf(pass.calls, "execute")
        IN  /\ \A i \in 1..Len(pass.rules) :
                 Count(executed, pass.rules[i].rule_id) =
                    IF /\ i <= EvaluatedSoFar(p)
                       /\ EvaluateCondition(pass.rules[i].condition, pass.event.payload)
                    THEN 1 ELSE 0
            /\ pass.matched_rules = executed
            /\ \A i \in 1..Len(pass.rules) :
                 Count(pass.executed_rules, pass.rules[i].rule_id) =
                    IF /\ i <= EvaluatedSoFar(p)
                       /\ EvaluateCondition(pass.rules[i].condition, pass.event.payload)
                       /\ ExecuteRule(pass.rules[i])
                    THEN 1 ELSE 0
            /\ (/\ pass.summary.has_ids
                /\ RuleIdsOf(pass.rules) = <<1, 2, 3>>
                /\ EvaluateCondition(pass.rules[1].condition, pass.event.payload)
                /\ ~EvaluateCondition(pass.rules[2].condition, pass.event.payload)
                /\ EvaluateCondition(pass.rules[3].condition, pass.event.payload)
                /\ ~ExecuteRule(pass.rules[1]) /\ ExecuteRule(pass.rules[3]))
               => /\ Len(pass.summary.matched_rule_ids) = 2
                  /\ pass.summary.executed_rule_ids = <<3>>

C3_Witness ==
    \E p \in PassIds :
        /\ Finished(p)
        /\ RuleIdsOf(passes[p].rules) = <<1, 2, 3>>
        /\ passes[p].summary.matched_rule_ids = <<1, 3>>
        /\ passes[p].summary.executed_rule_ids = <<3>>
        /\ CallsOf(passes[p].calls, "execute") = <<1, 3>>

(* C4. In a routing pass whose rule fetch returned, mark_event_processed   *)
(* is called exactly once, and only after every fetched rule has been      *)
(* evaluated and, if it matched, executed: the mark is the last call of    *)
(* the pass, no mark is made while a rule is left, and this is so also     *)
(* when executions returned failure.                                       *)
C4_MarkOnceAfterLastRule ==
    \A p \in PassIds :
        LET pass == passes[p]
            marks == Count(CallsOf(pass.calls, "mark"), 0)
        IN  pass.fetched =>
              /\ marks = IF Finished(p) THEN 1 ELSE 0
              /\ Finished(p) =>
                   /\ pass.calls[Len(pass.calls)].op = "mark"
                   /\ CallsOf(pass.calls, "evaluate") = RuleIdsOf(pass.rules)
                   /\ CallsOf(pass.calls, "execute") = pass.matched_rules

C4_Witness ==
    \E p \in PassIds :
        /\ Finished(p) /\ passes[p].fetched
        /\ Len(passes[p].rules) = 3
        /\ Len(passes[p].matched_rules) = 2
        /\ Len(passes[p].executed_rules) = 1
        /\ Count(CallsOf(passes[p].calls, "mark"), 0) = 1

C6_TwiceIsSafe ==
    /\ [](\A p \in PassIds : ~passes[p].raised)
    /\ [][\A e \in 1..Len(events) : events[e].processed => events'[e].processed]_vars

C6_Witness ==
    \E p, q \in PassIds :
        /\ p # q
        /\ passes[p].event_id = passes[q].event_id
        /\ Finished(p) /\ passes[p].fault = "none"
        /\ Finished(q) /\ passes[q].fault = "none"
        /\ passes[q].event.processed
        /\ events[passes[q].event_id].processed

(* C7. apply_rules never propagates an exception: when the rule fetch or   *)
(* the mark-processed call raises, the pass ends with a returned summary   *)
(* that carries the error field and the three counts 0.                    *)
C7_ErrorsBecomeErrorSummary ==
    \A p \in PassIds :
        /\ ~passes[p].raised
        /\ passes[p].fault \in {"fetch_raise", "mark_raise"} =>
             /\ Finished(p)
             /\ passes[p].summary.returned
             /\ passes[p].summary.error
             /\ ZeroCounts(passes[p].summary)
        /\ (Finished(p) /\ Entered(p)) => passes[p].summary.returned

C7_Witness ==
    \E p, q \in PassIds :
        /\ passes[p].fault = "mark_raise" /\ passes[p].matched_rules # <<>>
        /\ passes[p].summary.error
        /\ passes[q].fault = "fetch_raise" /\ passes[q].summary.error

(* C8. get_active_rules returns its rules in descending priority, equal    *)
(* priorities in ascending rule id: the order is strict, so it is the same *)
(* on every call over the same rule set. For the priorities 5, 20, 20, 1   *)
(* of the rules 1, 2, 3, 4 the order is 2, 3, 1, 4.                        *)
C8_PriorityThenIdOrder ==
    listing.called =>
        /\ \A i, j \in 1..Len(listing.result) :
              i < j =>
                \/ listing.result[i].priority > listing.result[j].priority
                \/ /\ listing.result[i].priority = listing.result[j].priority
                   /\ listing.result[i].rule_id < listing.result[j].rule_id
        /\ (/\ Len(rules) = 4
            /\ [i \in 1..4 |-> rules[i].priority] = <<5, 20, 20, 1>>
            /\ Len(listing.result) = 4)
           => RuleIdsOf(listing.result) = <<2, 3, 1, 4>>

C8_Witness ==
    /\ listing.called
    /\ [i \in 1..Len(rules) |-> rules[i].priority] = <<5, 20, 20, 1>>
    /\ RuleIdsOf(listing.result) = <<2, 3, 1, 4>>

\* the active rules of the app whose filter is unset or is the given type
QualifyingIds(app_id, event_type) ==
    {rules[i].rule_id : i \in {j \in 1..Len(rules) :
        /\ rules[j].app_id = app_id
        /\ rules[j].is_active
        /\ \/ ~rules[j].event_type_filter.given
           \/ event_type.given /\ rules[j].event_type_filter.val = event_type.val}}

ActiveIds(app_id) ==
    {rules[i].rule_id : i \in {j \in 1..Len(rules) :
        rules[j].app_id = app_id /\ rules[j].is_active}}

ResultIds == {listing.result[i].rule_id : i \in 1..Len(listing.result)}

(* C9. Original statement, for the calls whose query succeeds: for every   *)
(* app id and every event type argument, given or omitted, the result is   *)
(* exactly the active rules of the app whose event_type_filter is unset or *)
(* equals the given event type.                                            *)
C9_ExactlyTheQualifyingRules ==
    (listing.called /\ listing.db = "ok")
        => ResultIds = QualifyingIds(listing.app_id, listing.event_type)

(* C9, amended. When its query succeeds, get_active_rules returns each     *)
(* once: for a non-empty event type, exactly the active rules of the app   *)
(* whose event_type_filter is unset or equals it; for an omitted or empty  *)
(* event type, all active rules of the app, whatever their filter. When    *)
(* the query fails the result is the empty sequence.                       *)
C9_FilterOnlyOnGivenType ==
    listing.called =>
        IF listing.db = "ok"
        THEN /\ Cardinality(ResultIds) = Len(listing.result)
             /\ ResultIds =
                  IF listing.event_type.given /\ listing.event_type.val # <<>>
                  THEN QualifyingIds(listing.app_id, listing.event_type)
                  ELSE ActiveIds(listing.app_id)
        ELSE listing.result = <<>>

C9_Witness ==
    /\ listing.called /\ listing.db = "ok"
    /\ ~listing.event_type.given
    /\ \E i \in 1..Len(listing.result) : listing.result[i].event_type_filter.given
    /\ \E i \in 1..Len(rules) : rules[i].app_id = listing.app_id /\ ~rules[i].is_active

(* C10. For every routing pass that ends without error, the summary has   *)
(* rules_evaluated equal to the number of rules the selector returned (the *)
(* rules evaluated), rules_matched equal to the length of matched_rule_ids *)
(* (the rules the executor was called for) and rules_executed equal to the *)
(* length of executed_rule_ids; the branch without rules lists no ids and  *)
(* counts 0.                                                               *)
C10_CountsAreLengths ==
    \A p \in PassIds :
        LET pass == passes[p]
            summary == pass.summary
        IN  (Finished(p) /\ summary.returned /\ ~summary.error) =>
              /\ summary.rules_evaluated = Len(pass.rules)
              /\ summary.rules_evaluated = Len(CallsOf(pass.calls, "evaluate"))
              /\ summary.rules_matched = Len(summary.matched_rule_ids)
              /\ summary.rules_matched = Len(CallsOf(pass.calls, "execute"))
              /\ summary.rules_executed = Len(summary.executed_rule_ids)
              /\ summary.has_ids = (pass.rules # <<>>)
              /\ summary.matched_rule_ids = pass.matched_rules
              /\ summary.executed_rule_ids = pass.executed_rules

C10_Witness ==
    \E p \in PassIds :
        /\ Finished(p) /\ ~passes[p].summary.error
        /\ passes[p].summary.rules_evaluated = 3
        /\ passes[p].summary.rules_matched = 2
        /\ passes[p].summary.rules_executed = 1

(* C11. Evaluating the condition {"payload.total": {"$gt": 50}} against an *)
(* event payload {"total": n} yields a match iff n > 50: a match for 75,   *)
(* none for 50.                                                            *)
C11_PayloadTotalMatchesAbove50 ==
    (/\ invocation.op = "evaluate"
     /\ rules[invocation.rule_id].condition = CondPayloadTotalGt50)
        => \A n \in Totals :
              events[invocation.event_id].payload = TotalPayload(n)
                  => invocation.result = (n > 50)

(* C12. End to end: with the documented rule (filter order_created,        *)
(* condition {"payload.total": {"$gt": 50}}, webhook, priority 10) as the  *)
(* only active rule, the routing pass of an ingested order_created event   *)
(* whose payload total exceeds 50, run without a fault, yields             *)
(* rules_evaluated = 1, rules_matched = 1, rules_executed = 1 and leaves   *)
(* the event processed. The total of the request is the integer 75, and   *)
(* the pass is one whose rule fetch returned the rule.                     *)
C12_ExampleRoutesTheEvent ==
    \A p \in PassIds :
        (/\ Finished(p) /\ passes[p].origin = "ingest" /\ passes[p].fault = "none"
         /\ passes[p].rules = <<ExampleRule>>)
            => /\ passes[p].summary.rules_evaluated = 1
               /\ passes[p].summary.rules_matched = 1
               /\ passes[p].summary.rules_executed = 1
               /\ events[passes[p].event_id].processed

\* the condition and the payload of the last direct call
CalledCondition == rules[invocation.rule_id].condition
CalledPayload == events[invocation.event_id].payload
CalledRule == rules[invocation.rule_id]

(* C13. _evaluate_condition is total and pure: for every condition and     *)
(* payload, a condition that is no map, a non-map value on the key path    *)
(* and an operand not comparable with the resolved value included, it      *)
(* returns a boolean without raising, returns false when the evaluation    *)
(* hits an error, and changes neither the stored rule (its condition), the *)
(* stored event (its payload) nor any other state.                         *)
C13_EvaluationIsTotalAndPure ==
    /\ [](invocation.op = "evaluate" =>
            /\ invocation.result \in BOOLEAN
            /\ ~invocation.raised
            /\ invocation.outcome = "E" => invocation.result = FALSE
            /\ CalledCondition.t # "map" => invocation.result = FALSE
            /\ (/\ CalledCondition = Cond(S_total, Op(S_gt, JStr(S_queue)))
                /\ CalledPayload \in {TotalPayload(n) : n \in Totals})
                   => invocation.result = FALSE)
    /\ [][invocation'.op = "evaluate" =>
            /\ events' = events /\ rules' = rules
            /\ response' = response /\ passes' = passes /\ listing' = listing]_vars

C13_Witness ==
    /\ invocation.op = "evaluate"
    /\ CalledCondition = Cond(S_total, Op(S_gt, JStr(S_queue)))
    /\ CalledPayload = TotalPayload(75)
    /\ invocation.outcome = "E"
    /\ invocation.result = FALSE /\ ~invocation.raised

\* one key of a condition passes: a literal equals the resolved value, an
\* operator object has all its entries hold
KeyPasses(key, expected, payload) ==
    LET value == GetNestedValue(payload, key)
    IN  IF expected.t = "map"
        THEN \A i \in 1..Len(expected.m) :
                EvalOperator(expected.m[i][1], expected.m[i][2], value) = "T"
        ELSE JEq(value, expected)

(* C14. For a condition that is a map, _evaluate_condition returns true    *)
(* iff every key of the condition passes, a literal by equality with the   *)
(* resolved value and an operator object by all of its entries holding;    *)
(* the result is the same for every order of the keys and of the operator  *)
(* entries.                                                                *)
C14_AllKeysMustPass ==
    (invocation.op = "evaluate" /\ CalledCondition.t = "map") =>
        /\ invocation.result =
              \A i \in 1..Len(CalledCondition.m) :
                  KeyPasses(CalledCondition.m[i][1], CalledCondition.m[i][2],
                            CalledPayload)
        /\ \A other \in CallConditions :
              (other.t = "map" /\ JEq(other, CalledCondition))
                  => EvaluateCondition(other, CalledPayload) = invocation.result

C14_Witness ==
    /\ invocation.op = "evaluate"
    /\ Len(CalledCondition.m) = 2
    /\ KeyPasses(CalledCondition.m[1][1], CalledCondition.m[1][2], CalledPayload)
    /\ ~KeyPasses(CalledCondition.m[2][1], CalledCondition.m[2][2], CalledPayload)
    /\ invocation.result = FALSE
    /\ \E other \in CallConditions :
          other # CalledCondition /\ JEq(other, CalledCondition)

\* the key path is present in the payload: every key is a key of the map
\* reached so far
RECURSIVE PathPresent(_, _)
PathPresent(value, keys) ==
    IF keys = <<>> THEN TRUE
    ELSE /\ value.t = "map"
         /\ HasKey(value.m, Head(keys))
         /\ PathPresent(Lookup(value.m, Head(keys)), Tail(keys))

(* C15. For every payload and key path, the operator entry                 *)
(* {"$exists": true} holds iff the key path is present in the payload and  *)
(* {"$exists": false} holds iff it is absent; {"x": {"$exists": true}}     *)
(* does not match the payload {}.                                          *)
C15_ExistsMeansPresent ==
    invocation.op = "evaluate" =>
        \A key \in {S_x, S_user_id}, b \in BOOLEAN :
            CalledCondition = Cond(key, Op(S_exists, JBool(b)))
                => invocation.result =
                      (b <=> PathPresent(CalledPayload, Split(key, ".")))

(* C19. _execute_rule never raises: it returns false for a destination     *)
(* type other than webhook, database_table and queue, false when the       *)
(* handling of the destination raises (a destination_config without        *)
(* .get), and true otherwise.                                              *)
C19_ExecuteNeverRaises ==
    invocation.op = "execute" =>
        LET known == CalledRule.destination_type
                        \in {S_webhook, S_database_table, S_queue}
            handled == CalledRule.destination_config.t = "map"
        IN  /\ ~invocation.raised
            /\ invocation.result \in BOOLEAN
            /\ ~known => invocation.result = FALSE
            /\ (known /\ ~handled) => invocation.result = FALSE
            /\ (known /\ handled) => invocation.result = TRUE

C19_Witness ==
    /\ invocation.op = "execute"
    /\ CalledRule.destination_type = S_email
    /\ CalledRule.destination_config.t = "map"
    /\ invocation.result = FALSE /\ ~invocation.raised

\* an event type that is empty or whitespace only
BlankType(event_type) == \A i \in 1..Len(event_type) : event_type[i] = " "

\* the arguments of an ingest call that must be refused
Refused(call) == BlankType(call.event_type) \/ call.payload.t # "map"

(* C16. ingest_event called with an empty or whitespace-only event type,   *)
(* or with a payload that is no map, raises ValueError without calling     *)
(* persist_event, and the step leaves the event store as it was; the HTTP  *)
(* answer to such a request is a client error (4xx), never a 5xx.          *)
C16_InvalidInputIsRefused ==
    /\ []((invocation.op = "ingest" /\ Refused(invocation)) =>
            /\ invocation.pc = "done"
            /\ invocation.raised = "ValueError"
            /\ invocation.persist_calls = 0
            /\ invocation.attempt = 0
            /\ invocation.status \in 400..499
            /\ Len(events) = invocation.before)
    /\ [][(invocation'.op = "ingest" /\ Refused(invocation'))
             => events' = events]_vars

C16_Witness ==
    /\ invocation.op = "ingest"
    /\ invocation.event_type = S_blank /\ invocation.payload.t = "map"
    /\ invocation.raised = "ValueError" /\ invocation.status = 400
    /\ invocation.persist_calls = 0
    /\ Len(events) = 1

\* the stored events this call created
CreatedBy(call) == {i \in 1..Len(events) : i > call.before}

C18_OnlyProcessedChanges ==
    [][/\ Len(events') >= Len(events)
       /\ \A e \in 1..Len(events) :
             /\ events'[e].payload = events[e].payload
             /\ events'[e].metadata = events[e].metadata
             /\ events'[e].event_type = events[e].event_type
             /\ events'[e].app_id = events[e].app_id
             /\ events'[e].event_id = events[e].event_id
             /\ events[e].processed => events'[e].processed
       /\ \A e \in (Len(events) + 1)..Len(events') :
             ~events'[e].processed]_vars

C18_Witness ==
    /\ Len(events) = 2
    /\ events[1].processed /\ ~events[2].processed
    /\ \A e \in 1..2 :
          /\ events[e].payload = PayloadTotal75
          /\ events[e].metadata = EnrichedMetadata
          /\ events[e].event_type = S_order_created
    /\ \E p \in PassIds : passes[p].event_id = 2 /\ Finished(p)

(* C20. For every ingested event, the response with its event id is        *)
(* produced in the step that adds its routing task, and the task is then   *)
(* added but not started; the routing pass starts in a later step, which   *)
(* leaves the response as it is; and no step that produces a response      *)
(* takes a step of any routing pass (the handler does not wait for one).   *)
C20_ResponseBeforeRouting ==
    /\ [][\A p \in PassIds :
            (/\ passes[p].pc = "idle" /\ passes'[p].pc # "idle"
             /\ passes'[p].origin = "ingest")
                => /\ passes'[p].pc = "scheduled"
                   /\ response'.status = 201
                   /\ response'.event_id = passes'[p].event_id
                   /\ p \in response'.tasks]_vars
    /\ [][(\E p \in PassIds :
              passes[p].pc = "scheduled" /\ passes'[p].pc # "scheduled")
             => response' = response]_vars
    /\ [][response' # response
             => \A p \in PassIds :
                   passes'[p] = passes[p] \/ passes[p].pc = "idle"]_vars

C20_Witness ==
    \E p, q \in PassIds :
        /\ passes[p].origin = "ingest" /\ passes[p].pc = "scheduled"
        /\ response.status = 201 /\ response.event_id = passes[p].event_id
        /\ ~events[passes[p].event_id].processed
        /\ passes[q].origin = "ingest" /\ passes[q].pc \notin {"idle", "scheduled"}

(* C21. After any sequence of rule create, update, toggle and delete       *)
(* operations, every stored routing rule has a destination_type among      *)
(* webhook, database_table and queue, and a condition and a                *)
(* destination_config that are maps.                                       *)
C21_StoredRulesAreValid ==
    \A i \in 1..Len(rules) :
        /\ rules[i].destination_type \in {S_webhook, S_database_table, S_queue}
        /\ rules[i].condition.t = "map"
        /\ rules[i].destination_config.t = "map"

(* C22. For every request to list an application's events, the limit       *)
(* passed on to the event store is at most 1000 and the offset passed on   *)
(* is at least 0, whatever integers the caller supplied.                   *)
C22_LimitAndOffsetAreClamped ==
    invocation.op = "list_events"
        => /\ invocation.passed_limit <= MaxLimit
           /\ invocation.passed_offset >= 0

(* C23. No in-memory state written while handling one request is read or   *)
(* overwritten while handling another: while a request is being handled,   *)
(* the correlation id it wrote to the global context is still the one      *)
(* there, and the correlation id its handler observes and the one its      *)
(* response carries are its own.                                           *)
C23_RequestStateIsIsolated ==
    \A r \in 1..Len(requests) :
        /\ requests[r].pc # "done"
              => ContextGet(global_context) = Opt(requests[r].correlation_id)
        /\ requests[r].pc \in {"respond", "done"}
              => requests[r].observed = Opt(requests[r].correlation_id)
        /\ requests[r].pc = "done"
              => requests[r].response_header = Opt(requests[r].correlation_id)

(* C24. The background routing task never ends with an exception: whatever *)
(* the event lookup, the rule fetch and the mark do, nothing escapes       *)
(* async_apply_routing; and a task whose event was not found fetches,      *)
(* evaluates and executes no rule, marks nothing and gets no summary.      *)
C24_TaskNeverPropagates ==
    \A p \in PassIds :
        /\ ~passes[p].escaped
        /\ passes[p].fault = "lookup"
              => /\ passes[p].pc = "done"
                 /\ ~passes[p].fetched
                 /\ passes[p].calls = <<>>
                 /\ ~passes[p].summary.returned

C24_Witness ==
    \E p, q \in PassIds :
        /\ passes[p].fault = "lookup" /\ passes[p].pc = "done"
        /\ passes[p].event_id \in 1..Len(events)
        /\ ~events[passes[p].event_id].processed
        /\ passes[q].fault \in {"fetch_raise", "mark_raise"}
        /\ passes[q].pc = "done" /\ passes[q].summary.error

\* the operator names _evaluate_condition knows
Recognised == {S_gt, S_lt, S_gte, S_lte, S_eq, S_ne, S_exists}

RemoveAt(seq, j) == SubSeq(seq, 1, j - 1) \o SubSeq(seq, j + 1, Len(seq))

\* the condition without entry j of the operator object of its key i
RemoveOperator(condition, i, j) ==
    JMap([condition.m EXCEPT ![i] = <<@[1], JMap(RemoveAt(@[2].m, j))>>])

(* C25. An operator name other than $gt, $lt, $gte, $lte, $eq, $ne and     *)
(* $exists constrains nothing: for the condition of every call of          *)
(* _evaluate_condition, the condition with any one such entry removed      *)
(* gives the same result, and a key whose operator object holds only such  *)
(* entries passes.                                                         *)
C25_UnknownOperatorsConstrainNothing ==
    (invocation.op = "evaluate" /\ CalledCondition.t = "map")
        => \A i \in 1..Len(CalledCondition.m) :
              LET key == CalledCondition.m[i][1]
                  expected == CalledCondition.m[i][2]
              IN  expected.t = "map"
                    => /\ \A j \in 1..Len(expected.m) :
                            expected.m[j][1] \notin Recognised
                               => invocation.result =
                                     EvaluateCondition(
                                        RemoveOperator(CalledCondition, i, j),
                                        CalledPayload)
                       /\ (\A j \in 1..Len(expected.m) :
                              expected.m[j][1] \notin Recognised)
                             => EvalKey(key, expected, CalledPayload) = "T"

C25_Witness ==
    /\ invocation.op = "evaluate"
    /\ CalledCondition =
          Cond(S_total, JMap(<< <<S_typo, JNum(5)>>, <<S_gt, JNum(50)>> >>))
    /\ CalledPayload = TotalPayload(75)
    /\ invocation.result

\* the errors of the classes execute_with_retry catches
DatabaseErrors == {"execute_error", "commit_error"}

\* how many of the errors of a call are of these kinds
RECURSIVE CountKinds(_, _)
CountKinds(errors, kinds) ==
    IF errors = <<>> THEN 0
    ELSE (IF Head(errors).kind \in kinds THEN 1 ELSE 0)
            + CountKinds(Tail(errors), kinds)

MatchesOf(pass) == Len(CallsOf(pass.calls, "execute"))
SuccessesOf(pass) == Len(pass.executed_rules)

(* C27. Original statement: in every routing pass, whatever the outcome of *)
(* fetching the rules and of marking the event processed, rules_executed   *)
(* of the returned summary is the number of rule executions that returned  *)
(* success during the pass, and rules_matched the number of rules whose    *)
(* condition matched during the pass.                                      *)
C27_SummaryCountsWhatThePassDid ==
    \A p \in PassIds :
        passes[p].summary.returned
            => /\ passes[p].summary.rules_executed = SuccessesOf(passes[p])
               /\ passes[p].summary.rules_matched = MatchesOf(passes[p])

(* C27, amended. In every routing pass whose mark-processed call does not  *)
(* raise, whatever the outcome of fetching the rules and whether or not    *)
(* the mark succeeded, rules_executed of the returned summary is the       *)
(* number of rule executions that returned success during the pass and     *)
(* rules_matched the number of rules whose condition matched. When the     *)
(* mark-processed call raises, the summary returned is the error summary:  *)
(* its counts are 0 whatever was matched and executed before.              *)
C27_CountsUnlessTheMarkRaises ==
    \A p \in PassIds :
        LET pass == passes[p]
        IN  pass.summary.returned
              => IF pass.fault = "mark_raise"
                 THEN /\ pass.summary.error
                      /\ pass.summary.rules_matched = 0
                      /\ pass.summary.rules_executed = 0
                 ELSE /\ pass.summary.rules_executed = SuccessesOf(pass)
                      /\ pass.summary.rules_matched = MatchesOf(pass)
                      /\ pass.summary.error <=> pass.fault = "fetch_raise"

C27_Witness ==
    \E p, q \in PassIds :
        /\ passes[p].fault = "mark_error" /\ passes[p].summary.returned
        /\ MatchesOf(passes[p]) = 2 /\ SuccessesOf(passes[p]) = 1
        /\ passes[p].summary.rules_matched = 2
        /\ passes[p].summary.rules_executed = 1
        /\ passes[q].fault = "mark_raise" /\ passes[q].summary.returned
        /\ MatchesOf(passes[q]) = 2 /\ passes[q].summary.rules_matched = 0

\* a is b with some of its entries left out, the others in b's order
RECURSIVE IsSubsequence(_, _)
IsSubsequence(a, b) ==
    IF a = <<>> THEN TRUE
    ELSE IF b = <<>> THEN FALSE
    ELSE IF Head(a) = Head(b) THEN IsSubsequence(Tail(a), Tail(b))
    ELSE IsSubsequence(a, Tail(b))

NoRepeats(ids) == \A i, j \in 1..Len(ids) : ids[i] = ids[j] => i = j

\* the priority of the rule with this id among the rules a pass fetched
PriorityIn(fetched_rules, rule_id) ==
    (CHOOSE rule \in {fetched_rules[i] : i \in 1..Len(fetched_rules)} :
        rule.rule_id = rule_id).priority

\* ids go down in priority, and up in rule id where the priority is equal
InPriorityOrder(ids, fetched_rules) ==
    \A i, j \in 1..Len(ids) :
        i < j =>
            \/ PriorityIn(fetched_rules, ids[i]) > PriorityIn(fetched_rules, ids[j])
            \/ /\ PriorityIn(fetched_rules, ids[i]) = PriorityIn(fetched_rules, ids[j])
               /\ ids[i] < ids[j]

(* C28. In every summary that lists rule ids, executed_rule_ids is an      *)
(* order-preserving subsequence of matched_rule_ids, matched_rule_ids is   *)
(* an order-preserving subsequence of the rule order the selector          *)
(* returned, both are in descending priority and ascending id order, no    *)
(* rule id occurs twice in either, and rules_executed <= rules_matched <=  *)
(* rules_evaluated.                                                        *)
C28_IdListsAreOrderedSubsequences ==
    \A p \in PassIds :
        LET pass == passes[p]
            summary == pass.summary
        IN  (summary.returned /\ summary.has_ids)
              => /\ IsSubsequence(summary.executed_rule_ids,
                                  summary.matched_rule_ids)
                 /\ IsSubsequence(summary.matched_rule_ids, RuleIdsOf(pass.rules))
                 /\ InPriorityOrder(summary.matched_rule_ids, pass.rules)
                 /\ InPriorityOrder(summary.executed_rule_ids, pass.rules)
                 /\ NoRepeats(summary.matched_rule_ids)
                 /\ NoRepeats(summary.executed_rule_ids)
                 /\ summary.rules_executed <= summary.rules_matched
                 /\ summary.rules_matched <= summary.rules_evaluated

C28_Witness ==
    \E p \in PassIds :
        /\ passes[p].summary.returned /\ passes[p].summary.has_ids
        /\ RuleIdsOf(passes[p].rules) = <<1, 2, 3>>
        /\ passes[p].summary.matched_rule_ids = <<1, 3>>
        /\ passes[p].summary.executed_rule_ids = <<3>>

\* the ids of the fetched rules a pass executes with success, computed
\* from the rows as they were fetched
RECURSIVE ExecutedOf(_, _)
ExecutedOf(fetched_rules, payload) ==
    IF fetched_rules = <<>> THEN <<>>
    ELSE LET rule == Head(fetched_rules)
         IN  (IF EvaluateCondition(rule.condition, payload) /\ ExecuteRule(rule)
              THEN <<rule.rule_id>> ELSE <<>>)
                \o ExecutedOf(Tail(fetched_rules), payload)

IsPrefix(a, b) == Len(a) <= Len(b) /\ a = SubSeq(b, 1, Len(a))

(* C29. A routing pass works on the rule set it fetched at its start. The  *)
(* rules it fetched are rows of the store as they were at the fetch, all   *)
(* of them active then; no later step, and no rule created, updated,       *)
(* disabled or deleted meanwhile, changes the fetched rules; the pass      *)
(* evaluates the fetched rules in the fetched order and no other, and the  *)
(* rules it has executed when it ends are those the fetched rows give.     *)
C29_PassWorksOnFetchedRules ==
    /\ [][\A p \in PassIds :
            /\ passes[p].fetched => passes'[p].rules = passes[p].rules
            /\ (~passes[p].fetched /\ passes'[p].fetched)
                  => \A i \in 1..Len(passes'[p].rules) :
                        LET rule == passes'[p].rules[i]
                            at == RowOf(rules, rule.rule_id)
                        IN  at # 0 /\ rules[at] = rule /\ rules[at].is_active]_vars
    /\ [](\A p \in PassIds :
            /\ IsPrefix(CallsOf(passes[p].calls, "evaluate"),
                        RuleIdsOf(passes[p].rules))
            /\ (passes[p].pc = "done" /\ passes[p].fetched)
                  => /\ CallsOf(passes[p].calls, "evaluate")
                           = RuleIdsOf(passes[p].rules)
                     /\ passes[p].executed_rules
                           = ExecutedOf(passes[p].rules, passes[p].event.payload))

\* a pass has ended having executed rule 3, which was given an unknown
\* destination type after the fetch, and not having seen rule 4, created
\* after the fetch; rule 1 was disabled before the fetch
C29_Witness ==
    \E p \in PassIds :
        /\ passes[p].pc = "done" /\ passes[p].fetched
        /\ RuleIdsOf(passes[p].rules) = <<2, 3>>
        /\ passes[p].executed_rules = <<3>>
        /\ RowOf(rules, 3) # 0
        /\ rules[RowOf(rules, 3)].destination_type = S_email
        /\ RowOf(rules, 4) # 0 /\ rules[RowOf(rules, 4)].is_active
        /\ ~rules[RowOf(rules, 1)].is_active

(* C30. Every repository operation closes the connection it opened before  *)
(* it returns, on the success path and on the failure path: after any      *)
(* sequence of ingest, event lookup, rule fetch, mark-processed and        *)
(* message-persist operations as many connections are open as before.      *)
C30_ConnectionsAreClosed ==
    /\ connections = 0
    /\ invocation.op # "none"
          => /\ invocation.closed = invocation.opened
             /\ connections = invocation.open_before

===========================================================================
